---- MODULE Spec2Model ----
(***************************************************************************)
(* Ensemble sampling (voting_district_metrics.py) and ensemble analysis    *)
(* (helpers/analyze_ensemble_2024.py) of DKwokAsc/MCMC-Final-Project.      *)
(*                                                                         *)
(* Spec          one run of stream_plans_ndjson followed by                *)
(*               load_ensemble_ndjson on the store the run wrote.          *)
(* SpecAnalysis  analyze_ensemble_2024.main on a line-delimited ensemble   *)
(*               of the generator's records.                               *)
(*                                                                         *)
(* SpecMetrics   the metric functions on the tallies of one plan.          *)
(* SpecGraph     preprocess_graph, is_partition_contiguous and             *)
(*               aggregate_votes_by_district on a loaded graph.            *)
(*                                                                         *)
(* The shares and metrics that Python holds as floats are exact fractions  *)
(* [n, d]; the votes that aggregate_votes_by_district accumulates are      *)
(* binary64 floats, held as whole part and fraction bits.                  *)
(* An optional value (dict.get without default) is <<>> for None and <<v>> *)
(* for a value v.                                                          *)
(***************************************************************************)
EXTENDS Integers, Sequences, FiniteSets, TLC

VARIABLES
    graph,              \* node -> attribute record (population, Dem, Rep votes)
    samples,            \* stream_plans_ndjson parameters
    steps_between,
    burn_in,
    thin,
    store_exists,       \* whether out_path exists on disk
    store,              \* the lines of out_path
    pc,                 \* position of the program
    step,               \* number of chain states consumed by enumerate(chain)
    state,              \* the chain's current partition (node -> district)
    saved,
    saved_states_seen,
    outcome,            \* <<>> while running, then <<what the run ended with>>
    plans,              \* analysis: result of load_ensemble_ndjson
    metrics,            \* analysis: rows appended by main's loop
    G,                  \* preprocessing: the graph [nodes, edges, attr] in hand
    drop_zero_pop,      \* preprocess_graph parameter
    full_plan,          \* a plan over the nodes the graph was loaded with
    contig_result,      \* <<result of is_partition_contiguous>>
    agg,                \* <<result of aggregate_votes_by_district>>
    tallies,            \* metrics: [dem, rep], each district -> votes
    report,             \* metrics: <<the values computed from tallies>>
    node_order          \* the order in which partition.assignment yields the nodes

vars == << graph, samples, steps_between, burn_in, thin, store_exists, store,
           pc, step, state, saved, saved_states_seen, outcome, plans, metrics,
           G, drop_zero_pop, full_plan, contig_result, agg, tallies, report,
           node_order >>

auxVars == << G, drop_zero_pop, full_plan, contig_result, agg, tallies, report,
              node_order >>

\* the variables of the graph and metrics specifications, at rest
AuxIdle ==
    /\ G = [nodes |-> {}, edges |-> {}, attr |-> << >>]
    /\ drop_zero_pop = FALSE
    /\ full_plan = << >>
    /\ contig_result = << >>
    /\ agg = << >>
    /\ tallies = [dem |-> [keys |-> << >>, val |-> << >>],
                  rep |-> [keys |-> << >>, val |-> << >>]]
    /\ report = << >>

genVars == << samples, steps_between, burn_in, thin, step, state, saved,
              saved_states_seen, outcome >>

-----------------------------------------------------------------------------
(* Bounds of the model *)

MaxSamples == 2
MaxBurnIn == 1
MaxStepsBetween == 1
MaxThin == 2
MaxFileRecords == 2
MaxTallyDistricts == 3

(* Program constants *)

Slack == 100                \* "+ 100" of total_steps
MainStepsBetween == 100     \* steps_between passed by main()
Seed == 24                  \* default seed
EpsilonPercent == 2         \* default epsilon 0.02, times 100

POP_KEY == "TOT_POP"
DEM_KEY == "PREDEM24"
REP_KEY == "PREREP24"

-----------------------------------------------------------------------------
(* Graph: the 4-node path 1-2-3-4 *)

Nodes == 1 .. 4
Edges == { {1, 2}, {2, 3}, {3, 4} }
Districts == {1, 2}

Attr(pop, dem, rep) == [TOT_POP |-> pop, PREDEM24 |-> dem, PREREP24 |-> rep]

\* the attributes (partyA, partyB) = (10,5),(5,10),(10,5),(5,10)
PathGraph ==
    [n \in Nodes |-> IF n % 2 = 1 THEN Attr(100, 10, 5) ELSE Attr(100, 5, 10)]

RECURSIVE SumAttr(_, _, _)
SumAttr(g, S, col) ==
    IF S = {} THEN 0
    ELSE LET n == CHOOSE x \in S : TRUE
         IN  g[n][col] + SumAttr(g, S \ {n}, col)

\* partition.parts: district label -> member nodes, for the labels in use
Parts(part) == { part[n] : n \in DOMAIN part }
Members(part, d) == { n \in DOMAIN part : part[n] = d }

\* gerrychain Tally updater: per-district sum of a node attribute
Tally(g, part, col) == [d \in Parts(part) |-> SumAttr(g, Members(part, d), col)]

\* constraints.within_percent_of_ideal_population(initial, percent = epsilon*100):
\* the library takes percent as a fraction of the ideal population, so every
\* district lies between (1 - percent) * ideal and (1 + percent) * ideal
WithinPercentOfIdeal(g, part) ==
    LET total == SumAttr(g, DOMAIN part, POP_KEY)
        k     == Cardinality(Parts(part))
        pop   == Tally(g, part, POP_KEY)
    IN  \A d \in Parts(part) :
            /\ k * pop[d] >= (1 - EpsilonPercent) * total
            /\ k * pop[d] <= (1 + EpsilonPercent) * total

\* recom(pop_target = ideal, epsilon = 0.02): the two districts it cuts are
\* within epsilon of the ideal population
WithinEpsilonOfIdeal(g, part) ==
    LET total == SumAttr(g, DOMAIN part, POP_KEY)
        k     == Cardinality(Parts(part))
        pop   == Tally(g, part, POP_KEY)
    IN  \A d \in Parts(part) :
            /\ 100 * k * pop[d] >= (100 - EpsilonPercent) * total
            /\ 100 * k * pop[d] <= (100 + EpsilonPercent) * total

\* the plans a chain over g can start from: both districts used, valid under
\* the constraint; node 1 is in district 1 (labels are symmetric)
StartPlans(g) ==
    { a \in [Nodes -> Districts] :
        /\ a[1] = 1
        /\ Parts(a) = Districts
        /\ WithinPercentOfIdeal(g, a) }

\* the plans a chain over g can be in after a step: a proposal of recom that
\* is valid under the constraint
Plans(g) ==
    { a \in StartPlans(g) : WithinEpsilonOfIdeal(g, a) }

\* the orders in which an assignment over Nodes yields its items: the
\* library fixes one for a run; rising and falling are taken
PlanOrders ==
    { [i \in 1 .. Cardinality(Nodes) |-> i],
      [i \in 1 .. Cardinality(Nodes) |-> Cardinality(Nodes) + 1 - i] }

-----------------------------------------------------------------------------
(* Helpers of voting_district_metrics.py *)

Frac(n, d) == [n |-> n, d |-> d]
\* a == b on floats; a NaN equals nothing
FracEq(a, b) == a.d # 0 /\ b.d # 0 /\ a.n * b.d = b.n * a.d

seats_gop_by_tally(g, part) ==
    LET D == Tally(g, part, DEM_KEY)
        R == Tally(g, part, REP_KEY)
    IN  Cardinality({ d \in Parts(part) : R[d] > D[d] })

\* gerrychain.metrics.wasted_votes, doubled so that halves stay integers
wasted_votes2(party1, party2) ==
    LET total == party1 + party2
    IN  IF party1 > party2
        THEN << 2 * party1 - total, 2 * party2 >>
        ELSE << 2 * party1, 2 * party2 - total >>

RECURSIVE SumWaste(_, _, _)
SumWaste(D, R, S) ==
    IF S = {} THEN 0
    ELSE LET d == CHOOSE x \in S : TRUE
             w == wasted_votes2(D[d], R[d])
         IN  (w[2] - w[1]) + SumWaste(D, R, S \ {d})

\* efficiency_gap(partition) = metrics.efficiency_gap(partition["ELECT"]) with
\* parties (Dem, Rep): sum(waste2 - waste1) / total_votes
efficiency_gap(g, part) ==
    LET D == Tally(g, part, DEM_KEY)
        R == Tally(g, part, REP_KEY)
        total == SumAttr(g, DOMAIN part, DEM_KEY) + SumAttr(g, DOMAIN part, REP_KEY)
    IN  Frac(SumWaste(D, R, Parts(part)), 2 * total)

\* nx.is_connected(G.subgraph(nodes)): the nodes reachable from one member
\* through edges of E between members
RECURSIVE ReachIn(_, _, _)
ReachIn(E, S, seen) ==
    LET more == { n \in S \ seen : \E m \in seen : {n, m} \in E }
    IN  IF more = {} THEN seen ELSE ReachIn(E, S, seen \cup more)

\* mutant: members count as connected when a path through any node joins them
IsConnectedThroughAny(E, S) ==
    S \subseteq ReachIn(E, UNION E \cup S, {CHOOSE n \in S : TRUE})

IsConnectedIn(E, S) == ReachIn(E, S, {CHOOSE n \in S : TRUE}) = S

\* the loop of is_partition_contiguous over partition.parts.values()
PartsContiguous(E, parts) ==
    \A d \in DOMAIN parts :
        ~ (parts[d] = {} \/ ~ IsConnectedIn(E, parts[d]))

Reach(S, seen) == ReachIn(Edges, S, seen)

IsConnected(S) == IsConnectedIn(Edges, S)

is_partition_contiguous(part) ==
    PartsContiguous(Edges, [d \in Parts(part) |-> Members(part, d)])

\* A Python float x >= 0 (IEEE 754 binary64, below 2^30 and above the
\* subnormal range) is its whole part w and the bits f of its fraction,
\* x = w + f[1]/2 + f[2]/4 + ..., where f ends with a 1 bit.  Equal floats
\* have equal records.
Precision == 53
Float(w, f) == [w |-> w, f |-> f]
Zero == Float(0, << >>)
Zeros(k) == [i \in 1 .. k |-> 0]

\* the number of bits of the whole number w
BitLen(w) == CHOOSE L \in 0 .. 30 : w < 2 ^ L /\ (L = 0 \/ w >= 2 ^ (L - 1))

\* f without its trailing zero bits
Stripped(f) ==
    IF \A i \in 1 .. Len(f) : f[i] = 0 THEN << >>
    ELSE SubSeq(f, 1, CHOOSE i \in 1 .. Len(f) :
                        f[i] = 1 /\ \A j \in (i + 1) .. Len(f) : f[j] = 0)

Bit(f, i) == IF i <= Len(f) THEN f[i] ELSE 0

\* the carry into fraction bit i of a + b (i = 0: into the whole part): some
\* lower bit is set in both, and of every bit between exactly one is set
Carry(a, b, i) ==
    IF \E j \in (i + 1) .. Len(a) :
          /\ a[j] = 1 /\ Bit(b, j) = 1
          /\ \A k \in (i + 1) .. (j - 1) : a[k] + Bit(b, k) = 1
    THEN 1 ELSE 0

\* a + b as real numbers
ExactAdd(a, b) ==
    LET n == IF Len(a.f) > Len(b.f) THEN Len(a.f) ELSE Len(b.f)
        af == a.f \o Zeros(n - Len(a.f))
    IN  Float(a.w + b.w + Carry(af, b.f, 0),
              Stripped([i \in 1 .. n |->
                           (af[i] + Bit(b.f, i) + Carry(af, b.f, i)) % 2]))

\* the number of fraction bits that a float of the size of a holds
FractionBits(a) ==
    IF a.w > 0 THEN Precision - BitLen(a.w)
    ELSE Precision - 1 + (CHOOSE i \in 1 .. Len(a.f) :
                             a.f[i] = 1 /\ \A j \in 1 .. (i - 1) : a.f[j] = 0)

\* the float nearest to the real number a, ties to the even significand
Nearest(a) ==
    IF a.f = << >> THEN a
    ELSE LET p == FractionBits(a)
             kept == Float(a.w, Stripped(SubSeq(a.f, 1, p)))
             up == /\ a.f[p + 1] = 1
                   /\ (Len(a.f) > p + 1 \/ a.f[p] = 1)
         IN  IF Len(a.f) <= p THEN a
             ELSE IF up THEN ExactAdd(kept, Float(0, Zeros(p - 1) \o << 1 >>))
             ELSE kept

\* a + b on floats
FloatAdd(a, b) == Nearest(ExactAdd(a, b))

\* float(i) of an int i >= 0
FloatOf(i) == Float(i, << >>)

\* 2^k modulo d
RECURSIVE PowMod(_, _)
PowMod(k, d) ==
    IF k = 0 THEN 1 % d
    ELSE IF k % 2 = 1 THEN (2 * PowMod(k - 1, d)) % d
    ELSE (PowMod(k \div 2, d) * PowMod(k \div 2, d)) % d

\* long division of r by d, r < d: the remainder after k bits, and bit k
Remainder(r, d, k) == (r * PowMod(k, d)) % d
QuotientBit(r, d, k) == (2 * Remainder(r, d, k - 1)) \div d

\* the float of the decimal number n / d as the JSON parser reads it: the
\* nearest float.  The quotient is taken one bit beyond the significand,
\* and one more bit is set when the division leaves a remainder
FloatOfRatio(n, d) ==
    LET w == n \div d
        r == n % d
        lead == CHOOSE i \in 1 .. 31 :
                    /\ QuotientBit(r, d, i) = 1
                    /\ \A j \in 1 .. (i - 1) : QuotientBit(r, d, j) = 0
        p == IF w > 0 THEN Precision - BitLen(w) ELSE Precision - 1 + lead
        bits == [i \in 1 .. (p + 1) |-> QuotientBit(r, d, i)]
    IN  IF r = 0 THEN FloatOf(w)
        ELSE Nearest(Float(w, bits \o (IF Remainder(r, d, p + 1) = 0
                                       THEN << >> ELSE << 1 >>)))

\* int(round(a)): the nearest whole number, ties to the even one
IntRound(a) ==
    a.w + (IF a.f # << >> /\ a.f[1] = 1 /\ (Len(a.f) > 1 \/ a.w % 2 = 1)
           THEN 1 ELSE 0)

\* a node attribute as loaded, under a key every node has: a whole number,
\* a decimal number n / d with a fraction part, or None (JSON null) or the
\* empty string
Known(v) == [kind |-> "num", v |-> v]
Decimal(n, d) == [kind |-> "decimal", v |-> n, d |-> d]
Missing == [kind |-> "none", v |-> 0]

\* float(x) of a loaded number
FloatOfAttr(x) ==
    IF x.kind = "decimal" THEN FloatOfRatio(x.v, x.d) ELSE FloatOf(x.v)

_coerce_numeric(x) == IF x.kind = "none" THEN Zero ELSE FloatOfAttr(x)

Degree(g, n) == Cardinality({ e \in g.edges : n \in e })

\* graph.remove_nodes_from(S): the nodes go, and every edge at one of them
RemoveNodes(g, S) ==
    [nodes |-> g.nodes \ S,
     edges |-> { e \in g.edges : e \cap S = {} },
     attr  |-> [n \in g.nodes \ S |-> g.attr[n]]]

preprocess_graph(g, drop) ==
    LET islands == { n \in g.nodes : Degree(g, n) = 0 }
        g1 == RemoveNodes(g, islands)
        g2 == [g1 EXCEPT !.attr =
                  [n \in g1.nodes |->
                      [col \in DOMAIN g1.attr[n] |->
                          Known(IntRound(_coerce_numeric(g1.attr[n][col])))]]]
        zeros == { n \in g2.nodes : g2.attr[n][POP_KEY].v = 0 }
    IN  IF drop THEN RemoveNodes(g2, zeros) ELSE g2

\* assignment_dict: {str(node): int(label)}, a dict in the order of
\* partition.assignment.items()
assignment_dict(part) ==
    [keys |-> [i \in 1 .. Len(node_order) |-> ToString(node_order[i])],
     val  |-> [s \in { ToString(n) : n \in DOMAIN part } |->
                 part[CHOOSE n \in DOMAIN part : ToString(n) = s]]]

-----------------------------------------------------------------------------
(* The store: a text file, held as its lines.  A line is                   *)
(*   ind    leading spaces         key   the member name, "" if none       *)
(*   val    the literal text of a brace, string or boolean, "#" for a      *)
(*          number, "" for an empty line                                   *)
(*   n, d   the number n/d when val = "#"                                  *)
(*   comma  whether the line ends with a comma                             *)
(*   obj    <<o>> when the line holds the whole JSON object o, else <<>>   *)

Line(ind, key, val, n, d, comma) ==
    [ind |-> ind, key |-> key, val |-> val, n |-> n, d |-> d,
     comma |-> comma, obj |-> <<>>]

Text(ind, key, val, comma) == Line(ind, key, val, 0, 1, comma)
Num(ind, key, n, comma) == Line(ind, key, "#", n, 1, comma)
Blank == Text(0, "", "", FALSE)

\* the dict built at lines 214-231 for chain state part, written as record
\* idx, with contig the result of the contiguity check
RecordOf(g, part, idx, sb, bi, th, contig) ==
    [meta |-> [source_graph |-> "pretty_print.json",
               epsilon |-> Frac(EpsilonPercent, 100),
               seed |-> Seed,
               steps_between |-> sb,
               burn_in |-> bi,
               thin |-> th,
               pop_key |-> POP_KEY,
               dem_key |-> DEM_KEY,
               rep_key |-> REP_KEY],
     index |-> idx,
     contiguous |-> contig,
     gop_seats |-> seats_gop_by_tally(g, part),
     efficiency_gap |-> efficiency_gap(g, part),
     assignment |-> assignment_dict(part)]

\* mutant: the flag is written without looking at the plan
MakeRecordUnchecked(g, part, idx, sb, bi, th) ==
    RecordOf(g, part, idx, sb, bi, th, TRUE)

\* lines 209-231: contig = is_partition_contiguous(state), then the dict
MakeRecord(g, part, idx, sb, bi, th) ==
    RecordOf(g, part, idx, sb, bi, th, is_partition_contiguous(part))

\* json.dump(obj, pf, indent=2): one member per line, nested objects indented
Dump(o) ==
    << Text(0, "", "{", FALSE),
       Text(2, "meta", "{", FALSE),
       Text(4, "source_graph", o.meta.source_graph, TRUE),
       Line(4, "epsilon", "#", o.meta.epsilon.n, o.meta.epsilon.d, TRUE),
       Num(4, "seed", o.meta.seed, TRUE),
       Num(4, "steps_between", o.meta.steps_between, TRUE),
       Num(4, "burn_in", o.meta.burn_in, TRUE),
       Num(4, "thin", o.meta.thin, TRUE),
       Text(4, "pop_key", o.meta.pop_key, TRUE),
       Text(4, "dem_key", o.meta.dem_key, TRUE),
       Text(4, "rep_key", o.meta.rep_key, FALSE),
       Text(2, "", "}", TRUE),
       Num(2, "index", o.index, TRUE),
       Text(2, "contiguous", IF o.contiguous THEN "true" ELSE "false", TRUE),
       Num(2, "gop_seats", o.gop_seats, TRUE),
       Line(2, "efficiency_gap", "#", o.efficiency_gap.n, o.efficiency_gap.d, TRUE),
       Text(2, "assignment", "{", FALSE) >>
    \o [i \in 1 .. Len(o.assignment.keys) |->
            Num(4, o.assignment.keys[i], o.assignment.val[o.assignment.keys[i]],
                i < Len(o.assignment.keys))]
    \o << Text(2, "", "}", FALSE),
          Text(0, "", "}", FALSE) >>

\* mutant: the file is opened for writing instead of appending
WriteRecordTruncating(lines, o) == Dump(o) \o << Blank >>

\* with open(out_path, "a") as pf: json.dump(obj, pf, indent=2); pf.write("\n\n")
WriteRecord(lines, o) == lines \o Dump(o) \o << Blank >>

-----------------------------------------------------------------------------
(* stream_plans_ndjson *)

\* mutant: the thinning factor is left out of the budget
TotalStepsNoThin(n, bi, sb, th) == (n + bi) * (sb + 1) + Slack

TotalSteps(n, bi, sb, th) == (n + bi) * (sb + 1) * th + Slack

\* mutant: the first state of every group is kept instead of the last
IsCandidateKeptFirst(i, sb) == i % (sb + 1) = 0

\* step % (steps_between + 1) != steps_between  ->  continue
IsCandidateKept(i, sb) == i % (sb + 1) = sb

\* saved_states_seen <= burn_in  ->  continue
InBurnIn(seen, bi) == seen <= bi

\* (saved_states_seen - burn_in - 1) % thin != 0  ->  continue
IsThinned(seen, bi, th) == (seen - bi - 1) % th # 0

\* saved >= samples  ->  break
ReachedSamples(n, want) == n >= want

\* the message printed after the loop
StreamSaved(n) == << [msg |-> "Stream-saved", saved |-> n] >>

\* a store left by an earlier run
StaleStore == WriteRecord(<< >>, MakeRecord(PathGraph, [n \in Nodes |-> 1], 1, 0, 0, 1))

StepsBetweens == (0 .. MaxStepsBetween) \cup {MainStepsBetween}

Init ==
    /\ node_order \in PlanOrders
    /\ graph = PathGraph
    /\ samples \in 0 .. MaxSamples
    /\ steps_between \in StepsBetweens
    /\ burn_in \in 0 .. MaxBurnIn
    /\ thin \in 0 .. MaxThin
    /\ store_exists \in BOOLEAN
    /\ store = IF store_exists THEN StaleStore ELSE << >>
    /\ pc = "start"
    /\ step = 0
    /\ state \in StartPlans(graph)
    /\ saved = 0
    /\ saved_states_seen = 0
    /\ outcome = << >>
    /\ plans = << >>
    /\ metrics = << >>
    /\ AuxIdle

\* lines 167-195: build the chain, then open(out_path, "w").close()
Start ==
    /\ pc = "start"
    /\ pc' = "loop"
    /\ store_exists' = TRUE
    /\ store' = << >>
    /\ UNCHANGED << graph, auxVars, genVars, plans, metrics >>

\* the chain yields its initial state first, then one accepted proposal per
\* step, total_steps states in all
Yields == IF step = 0 THEN {state} ELSE Plans(graph)

Consume(nxt) ==
    /\ pc = "loop"
    /\ step < TotalSteps(samples, burn_in, steps_between, thin)
    /\ nxt \in Yields
    /\ state' = nxt
    /\ step' = step + 1

StepSkipCadence ==
    /\ pc = "loop"
    /\ ~ IsCandidateKept(step, steps_between)
    /\ \E nxt \in Yields :
        /\ Consume(nxt)
        /\ UNCHANGED << graph, auxVars, samples, steps_between, burn_in, thin, store_exists,
                        store, pc, saved, saved_states_seen, outcome, plans, metrics >>

StepSkipBurnIn ==
    /\ pc = "loop"
    /\ IsCandidateKept(step, steps_between)
    /\ \E nxt \in Yields :
        /\ Consume(nxt)
        /\ saved_states_seen' = saved_states_seen + 1
        /\ InBurnIn(saved_states_seen', burn_in)
        /\ UNCHANGED << graph, auxVars, samples, steps_between, burn_in, thin, store_exists,
                        store, pc, saved, outcome, plans, metrics >>

\* thin = 0: the modulus raises ZeroDivisionError out of the function
StepRaise ==
    /\ pc = "loop"
    /\ IsCandidateKept(step, steps_between)
    /\ \E nxt \in Yields :
        /\ Consume(nxt)
        /\ saved_states_seen' = saved_states_seen + 1
        /\ ~ InBurnIn(saved_states_seen', burn_in)
        /\ thin = 0
        /\ pc' = "raised"
        /\ outcome' = << [msg |-> "ZeroDivisionError", saved |-> saved] >>
        /\ UNCHANGED << graph, auxVars, samples, steps_between, burn_in, thin, store_exists,
                        store, saved, plans, metrics >>

StepSkipThin ==
    /\ pc = "loop"
    /\ IsCandidateKept(step, steps_between)
    /\ \E nxt \in Yields :
        /\ Consume(nxt)
        /\ saved_states_seen' = saved_states_seen + 1
        /\ ~ InBurnIn(saved_states_seen', burn_in)
        /\ thin # 0
        /\ IsThinned(saved_states_seen', burn_in, thin)
        /\ UNCHANGED << graph, auxVars, samples, steps_between, burn_in, thin, store_exists,
                        store, pc, saved, outcome, plans, metrics >>

StepWrite ==
    /\ pc = "loop"
    /\ IsCandidateKept(step, steps_between)
    /\ \E nxt \in Yields :
        /\ Consume(nxt)
        /\ saved_states_seen' = saved_states_seen + 1
        /\ ~ InBurnIn(saved_states_seen', burn_in)
        /\ thin # 0
        /\ ~ IsThinned(saved_states_seen', burn_in, thin)
        /\ store' = WriteRecord(store, MakeRecord(graph, nxt, saved + 1,
                                                  steps_between, burn_in, thin))
        /\ saved' = saved + 1
        /\ IF ReachedSamples(saved', samples)
           THEN pc' = "done" /\ outcome' = StreamSaved(saved')
           ELSE pc' = "loop" /\ outcome' = outcome
        /\ UNCHANGED << graph, auxVars, samples, steps_between, burn_in, thin, store_exists,
                        plans, metrics >>

\* the chain is exhausted: the for loop ends and the message is printed
Exhausted ==
    /\ pc = "loop"
    /\ step >= TotalSteps(samples, burn_in, steps_between, thin)
    /\ pc' = "done"
    /\ outcome' = StreamSaved(saved)
    /\ UNCHANGED << graph, auxVars, samples, steps_between, burn_in, thin, store_exists,
                    store, step, state, saved, saved_states_seen, plans, metrics >>

-----------------------------------------------------------------------------
(* helpers/analyze_ensemble_2024.py *)

NaN == Frac(0, 0)
IsNaN(f) == f.d = 0

\* a line of a line-delimited store: the whole object, compact, on one line
NdjsonLine(o) ==
    [ind |-> 0, key |-> "", val |-> "{}", n |-> 0, d |-> 1, comma |-> FALSE,
     obj |-> << o >>]

\* line.strip() is empty
IsEmptyLine(line) == line.key = "" /\ line.val = "" /\ line.obj = << >>

\* json.loads(line): << the object >>, or << >> for JSONDecodeError; a line
\* parses only when it is a whole JSON document
json_loads(line) == line.obj

RECURSIVE LoadLines(_, _)
LoadLines(lines, acc) ==
    IF lines = << >> THEN [raised |-> FALSE, plans |-> acc]
    ELSE LET line == Head(lines)
         IN  IF IsEmptyLine(line) THEN LoadLines(Tail(lines), acc)
             ELSE IF json_loads(line) = << >> THEN [raised |-> TRUE, plans |-> acc]
             ELSE LoadLines(Tail(lines), acc \o json_loads(line))

load_ensemble_ndjson(lines) == LoadLines(lines, << >>)

\* dict.get(key) without a default
Get(dict, key) == IF key \in DOMAIN dict THEN << dict[key] >> ELSE << >>

\* a dict keeps its keys in insertion order: keys is that order, val the
\* value of each key
EmptyDict == [keys |-> << >>, val |-> << >>]

\* {int(node): int(dist) for node, dist in assignment_raw.items()}: the
\* items keep the order of the loaded object
IntKeys(raw) ==
    LET int(s) == CHOOSE n \in Nodes : ToString(n) = s
    IN  [keys |-> [i \in 1 .. Len(raw.keys) |-> int(raw.keys[i])],
         val  |-> [n \in { int(s) : s \in DOMAIN raw.val } |->
                     raw.val[CHOOSE s \in DOMAIN raw.val : int(s) = n]]]

\* by_dist[dist] += x on a defaultdict(float): a new key goes last
AddTo(by_dist, dist, x) ==
    IF dist \in DOMAIN by_dist.val
    THEN [by_dist EXCEPT !.val[dist] = FloatAdd(@, x)]
    ELSE [keys |-> Append(by_dist.keys, dist),
          val  |-> by_dist.val @@ (dist :> FloatAdd(Zero, x))]

\* mutant: the two-party total of a district is that of its last node
AddNodeLastTwo(g, assignment, node_id, acc) ==
    LET dist == assignment.val[node_id]
        dem == g[node_id][DEM_KEY]
        rep == g[node_id][REP_KEY]
    IN  IF node_id \notin DOMAIN g THEN acc
        ELSE [dem |-> AddTo(acc.dem, dist, dem),
              rep |-> AddTo(acc.rep, dist, rep),
              two |-> [AddTo(acc.two, dist, Zero)
                          EXCEPT !.val[dist] = FloatAdd(dem, rep)]]

\* one iteration of "for node_id, dist in assignment.items()"
AddNode(g, assignment, node_id, acc) ==
    LET dist == assignment.val[node_id]
        dem == g[node_id][DEM_KEY]
        rep == g[node_id][REP_KEY]
        two == FloatAdd(dem, rep)
    IN  IF node_id \notin DOMAIN g THEN acc
        ELSE [dem |-> AddTo(acc.dem, dist, dem),
              rep |-> AddTo(acc.rep, dist, rep),
              two |-> AddTo(acc.two, dist, two)]

RECURSIVE AggregateItems(_, _, _, _)
AggregateItems(g, assignment, items, acc) ==
    IF items = << >> THEN acc
    ELSE AggregateItems(g, assignment, Tail(items),
                        AddNode(g, assignment, Head(items), acc))

\* "attr.get(key, 0.0) or 0.0" and float(...) with 0.0 on TypeError or
\* ValueError, for the attributes of every node of a loaded graph: a number
\* gives its float, None or the empty string gives 0.0
VoteAttrs(g) ==
    [n \in g.nodes |->
        [col \in DOMAIN g.attr[n] |->
            IF g.attr[n][col].kind = "none" THEN Zero
            ELSE FloatOfAttr(g.attr[n][col])]]

\* the same for a graph whose attributes are whole numbers
FloatAttrs(g) ==
    [n \in DOMAIN g |-> [col \in DOMAIN g[n] |-> FloatOf(g[n][col])]]

\* tallies of whole numbers, as the counts they are
Counts(by_dist) ==
    [keys |-> by_dist.keys,
     val  |-> [d \in DOMAIN by_dist.val |-> IntRound(by_dist.val[d])]]

\* (dem_by_dist, rep_by_dist, two_party_by_dist): nodes that are not in the
\* graph are skipped; a district exists once one of its nodes counts
aggregate_votes_by_district(g, assignment) ==
    AggregateItems(g, assignment, assignment.keys,
                   [dem |-> EmptyDict, rep |-> EmptyDict, two |-> EmptyDict])

\* line 204 of main for a graph whose attributes are whole numbers: the
\* tallies as counts
VoteCounts(g, assignment) ==
    LET sums == aggregate_votes_by_district(FloatAttrs(g), assignment)
    IN  [dem |-> Counts(sums.dem), rep |-> Counts(sums.rep),
         two |-> Counts(sums.two)]

\* mutant: a tied district goes to the second party, which wastes its surplus
Wasted2TieLost(dem, rep) ==
    LET total == dem + rep
        threshold == (total \div 2) + 1
        max0(x) == IF x > 0 THEN x ELSE 0
    IN  IF total <= 0 THEN << 0, 0, 0 >>
        ELSE IF dem > rep THEN << max0(2 * (dem - threshold)), max0(2 * rep), total >>
        ELSE << max0(2 * dem), max0(2 * (rep - threshold)), total >>

\* per-district doubled wasted votes (dem, rep), and the two-party total counted
Wasted2(dem, rep) ==
    LET total == dem + rep
        threshold == (total \div 2) + 1
        max0(x) == IF x > 0 THEN x ELSE 0
    IN  IF total <= 0 THEN << 0, 0, 0 >>
        ELSE IF dem > rep THEN << max0(2 * (dem - threshold)), max0(2 * rep), total >>
        ELSE IF rep > dem THEN << max0(2 * dem), max0(2 * (rep - threshold)), total >>
        ELSE << max0(dem), max0(rep), total >>

RECURSIVE SumWasted2(_, _, _, _)
SumWasted2(dem_by_dist, rep_by_dist, S, i) ==
    IF S = {} THEN 0
    ELSE LET d == CHOOSE x \in S : TRUE
         IN  Wasted2(dem_by_dist.val[d], rep_by_dist.val[d])[i]
             + SumWasted2(dem_by_dist, rep_by_dist, S \ {d}, i)

compute_efficiency_gap(dem_by_dist, rep_by_dist) ==
    LET S == DOMAIN dem_by_dist.val
        wasted_dem_total == SumWasted2(dem_by_dist, rep_by_dist, S, 1)
        wasted_rep_total == SumWasted2(dem_by_dist, rep_by_dist, S, 2)
        total_two_party  == SumWasted2(dem_by_dist, rep_by_dist, S, 3)
    IN  IF total_two_party = 0 THEN NaN
        ELSE Frac(wasted_dem_total - wasted_rep_total, 2 * total_two_party)

\* mutant: the band without its endpoints
compute_competitiveness_open(dem_by_dist, rep_by_dist, lo, hi) ==
    Cardinality({ d \in DOMAIN dem_by_dist.val :
        LET dem == dem_by_dist.val[d]
            total == dem + rep_by_dist.val[d]
        IN  /\ ~ (total <= 0)
            /\ lo * total < 100 * dem
            /\ 100 * dem < hi * total })

\* low <= dem / total <= high, with low = lo/100 and high = hi/100
compute_competitiveness(dem_by_dist, rep_by_dist, lo, hi) ==
    Cardinality({ d \in DOMAIN dem_by_dist.val :
        LET dem == dem_by_dist.val[d]
            total == dem + rep_by_dist.val[d]
        IN  /\ ~ (total <= 0)
            /\ lo * total <= 100 * dem
            /\ 100 * dem <= hi * total })

\* ZeroDivisionError out of a float division
Raised == Frac(0, -1)
IsRaised(f) == f.d < 0
Half == Frac(1, 2)

\* a / k, a - b, a + b and a * m on floats; an exception propagates
DivInt(a, k) == IF IsRaised(a) \/ k = 0 THEN Raised ELSE Frac(a.n, a.d * k)
FracSub(a, b) ==
    IF IsRaised(a) \/ IsRaised(b) THEN Raised
    ELSE Frac(a.n * b.d - b.n * a.d, a.d * b.d)
FracAdd(a, b) ==
    IF IsRaised(a) \/ IsRaised(b) THEN Raised
    ELSE Frac(a.n * b.d + b.n * a.d, a.d * b.d)
FracMul(a, m) == IF IsRaised(a) THEN Raised ELSE Frac(a.n * m, a.d)
\* a <= b and a < b on floats; every comparison with a NaN is false
FracLe(a, b) == a.d # 0 /\ b.d # 0 /\ a.n * b.d <= b.n * a.d
FracLt(a, b) == a.d # 0 /\ b.d # 0 /\ a.n * b.d < b.n * a.d

\* the shares list built by the loops of compute_mean_median,
\* compute_partisan_bias and compute_declination over dem_by_dist.keys():
\* dem / total, total > 0
RECURSIVE SharesOf(_, _, _)
SharesOf(dem_by_dist, rep_by_dist, keys) ==
    IF keys = << >> THEN << >>
    ELSE LET dem == dem_by_dist.val[Head(keys)]
             total == dem + rep_by_dist.val[Head(keys)]
             rest == SharesOf(dem_by_dist, rep_by_dist, Tail(keys))
         IN  IF total <= 0 THEN rest ELSE << Frac(dem, total) >> \o rest

Shares(dem_by_dist, rep_by_dist) ==
    SharesOf(dem_by_dist, rep_by_dist, dem_by_dist.keys)

\* sorted(shares)
RECURSIVE Sorted(_)
Sorted(xs) ==
    IF xs = << >> THEN << >>
    ELSE LET i == CHOOSE j \in 1 .. Len(xs) :
                      \A l \in 1 .. Len(xs) : FracLe(xs[j], xs[l])
         IN  << xs[i] >> \o Sorted(SubSeq(xs, 1, i - 1) \o SubSeq(xs, i + 1, Len(xs)))

\* sum(xs)
RECURSIVE SumFracs(_)
SumFracs(xs) ==
    IF xs = << >> THEN Frac(0, 1) ELSE FracAdd(Head(xs), SumFracs(Tail(xs)))

\* total += by_dist[dist] over the districts S
RECURSIVE SumVotes(_, _)
SumVotes(by_dist, S) ==
    IF S = {} THEN 0
    ELSE LET d == CHOOSE x \in S : TRUE
         IN  by_dist.val[d] + SumVotes(by_dist, S \ {d})

compute_mean_median(dem_by_dist, rep_by_dist) ==
    LET shares == Shares(dem_by_dist, rep_by_dist)
        shares_sorted == Sorted(shares)
        n == Len(shares_sorted)
        mean_share == DivInt(SumFracs(shares_sorted), n)
        median_share ==
            IF n % 2 = 1 THEN shares_sorted[(n \div 2) + 1]
            ELSE DivInt(FracAdd(shares_sorted[n \div 2], shares_sorted[(n \div 2) + 1]), 2)
    IN  IF shares = << >> THEN NaN ELSE FracSub(mean_share, median_share)

compute_partisan_bias(dem_by_dist, rep_by_dist) ==
    LET shares == Shares(dem_by_dist, rep_by_dist)
        qual == { d \in DOMAIN dem_by_dist.val :
                    ~ (dem_by_dist.val[d] + rep_by_dist.val[d] <= 0) }
        total_dem == SumVotes(dem_by_dist, qual)
        total_rep == SumVotes(rep_by_dist, qual)
        statewide_dem_share == DivInt(Frac(total_dem, 1), total_dem + total_rep)
        shift == FracSub(Half, statewide_dem_share)
        clamp(x) == IF x.n < 0 THEN Frac(0, 1) ELSE IF x.n > x.d THEN Frac(1, 1) ELSE x
        num_dists == Len(shares)
        dem_seats_at_50 ==
            Cardinality({ i \in 1 .. num_dists :
                LET s == clamp(FracAdd(shares[i], shift))
                IN  FracLt(Half, s) })
    IN  IF shares = << >> \/ total_dem + total_rep = 0 THEN NaN
        ELSE IF IsRaised(shift) THEN Raised
        ELSE FracSub(DivInt(Frac(dem_seats_at_50, 1), num_dists), Half)

\* the declination: nan, raised, or atan(high) - atan(low) in degrees
Declination(nan, low, high) ==
    [nan |-> nan, raised |-> IsRaised(low) \/ IsRaised(high), low |-> low, high |-> high]

\* mutant: the split is only tested for k = 0
compute_declination_k0(dem_by_dist, rep_by_dist) ==
    LET shares_sorted == Sorted(Shares(dem_by_dist, rep_by_dist))
        n == Len(shares_sorted)
        k == Cardinality({ i \in 1 .. n : FracLe(shares_sorted[i], Half) })
        mean_R == DivInt(SumFracs(SubSeq(shares_sorted, 1, k)), k)
        mean_D == DivInt(SumFracs(SubSeq(shares_sorted, k + 1, n)), n - k)
    IN  IF shares_sorted = << >> \/ k = 0
        THEN Declination(TRUE, Frac(0, 1), Frac(0, 1))
        ELSE Declination(FALSE, DivInt(FracMul(FracSub(Half, mean_R), n), k),
                                DivInt(FracMul(FracSub(mean_D, Half), n), n - k))

compute_declination(dem_by_dist, rep_by_dist) ==
    LET shares_sorted == Sorted(Shares(dem_by_dist, rep_by_dist))
        n == Len(shares_sorted)
        k == Cardinality({ i \in 1 .. n : FracLe(shares_sorted[i], Half) })
        mean_R == DivInt(SumFracs(SubSeq(shares_sorted, 1, k)), k)
        mean_D == DivInt(SumFracs(SubSeq(shares_sorted, k + 1, n)), n - k)
    IN  IF shares_sorted = << >> \/ k = 0 \/ k = n
        THEN Declination(TRUE, Frac(0, 1), Frac(0, 1))
        ELSE Declination(FALSE, DivInt(FracMul(FracSub(Half, mean_R), n), k),
                                DivInt(FracMul(FracSub(mean_D, Half), n), n - k))

\* lines 205-219 of main: the seat tally over every district of dem_by_dist
SeatTally(dem_by_dist, rep_by_dist) ==
    LET S == DOMAIN dem_by_dist.val
        dem_seats == Cardinality({ d \in S : dem_by_dist.val[d] > rep_by_dist.val[d] })
        gop_seats == Cardinality({ d \in S : ~ (dem_by_dist.val[d] > rep_by_dist.val[d])
                                             /\ rep_by_dist.val[d] > dem_by_dist.val[d] })
        ties      == Cardinality(S) - dem_seats - gop_seats
        D         == dem_seats + gop_seats + ties
    IN  [dem_seats |-> dem_seats, gop_seats |-> gop_seats, ties |-> ties,
         seat_share_dem |-> IF D > 0 THEN Frac(dem_seats, D) ELSE NaN,
         seat_share_gop |-> IF D > 0 THEN Frac(gop_seats, D) ELSE NaN]

\* lines 183-194 of main
StatewideDemShare(g) ==
    LET total_dem_state == SumAttr(g, DOMAIN g, DEM_KEY)
        total_rep_state == SumAttr(g, DOMAIN g, REP_KEY)
    IN  IF total_dem_state + total_rep_state > 0
        THEN Frac(total_dem_state, total_dem_state + total_rep_state)
        ELSE NaN

\* lines 197-226 of main: the row appended for one loaded plan
MetricsRow(g, plan) ==
    LET assignment_raw == IF "assignment" \in DOMAIN plan
                          THEN plan["assignment"] ELSE EmptyDict
        assignment == IntKeys(assignment_raw)
        votes == VoteCounts(g, assignment)
        tally == SeatTally(votes.dem, votes.rep)
    IN  [plan_index |-> Get(plan, "plan_index"),
         num_districts |-> Get(plan, "num_districts"),
         rep_seats_generated |-> Get(plan, "rep_seats_won"),
         dem_seats_generated |-> Get(plan, "dem_seats_won"),
         gop_seats_recomputed |-> tally.gop_seats,
         dem_seats_recomputed |-> tally.dem_seats,
         ties |-> tally.ties,
         seat_share_gop |-> tally.seat_share_gop,
         seat_share_dem |-> tally.seat_share_dem,
         efficiency_gap_generated |-> Get(plan, "efficiency_gap"),
         efficiency_gap_recomputed |-> compute_efficiency_gap(votes.dem, votes.rep),
         mean_median |-> compute_mean_median(votes.dem, votes.rep),
         partisan_bias |-> compute_partisan_bias(votes.dem, votes.rep),
         declination_deg |-> compute_declination(votes.dem, votes.rep),
         competitive_45_55 |-> compute_competitiveness(votes.dem, votes.rep, 45, 55),
         competitive_48_52 |-> compute_competitiveness(votes.dem, votes.rep, 48, 52),
         statewide_dem_share |-> StatewideDemShare(g)]

\* plans = load_ensemble_ndjson(path)
Load ==
    /\ pc \in {"done", "analysis"}
    /\ LET r == load_ensemble_ndjson(store)
       IN  IF r.raised
           THEN /\ pc' = "load_raised"
                /\ plans' = plans
           ELSE /\ pc' = "rows"
                /\ plans' = r.plans
    /\ UNCHANGED << graph, auxVars, genVars, store_exists, store, metrics >>

\* one iteration of "for plan in plans"
AnalyzePlan ==
    /\ pc = "rows"
    /\ Len(metrics) < Len(plans)
    /\ metrics' = Append(metrics, MetricsRow(graph, plans[Len(metrics) + 1]))
    /\ UNCHANGED << graph, auxVars, genVars, store_exists, store, pc, plans >>

\* "if metrics": the rows are written to the CSV file
WriteCsv ==
    /\ pc = "rows"
    /\ Len(metrics) = Len(plans)
    /\ metrics # << >>
    /\ pc' = "csv"
    /\ UNCHANGED << graph, auxVars, genVars, store_exists, store, plans, metrics >>

\* "No metrics computed (no plans?)"
NoMetrics ==
    /\ pc = "rows"
    /\ Len(metrics) = Len(plans)
    /\ metrics = << >>
    /\ pc' = "no_metrics"
    /\ UNCHANGED << graph, auxVars, genVars, store_exists, store, plans, metrics >>

-----------------------------------------------------------------------------
(* Specifications *)

Next ==
    \/ Start
    \/ StepSkipCadence
    \/ StepSkipBurnIn
    \/ StepRaise
    \/ StepSkipThin
    \/ StepWrite
    \/ Exhausted
    \/ Load

Spec == Init /\ [][Next]_vars

\* per-node (Dem, Rep) votes of the graphs analysed
VotePairs == { << 0, 0 >>, << 10, 5 >>, << 5, 10 >>, << 3, 1 >> }

AnalysisGraphs ==
    { g \in [Nodes -> { Attr(100, v[1], v[2]) : v \in VotePairs }] :
        SumAttr(g, Nodes, DEM_KEY) + SumAttr(g, Nodes, REP_KEY) > 0 }

\* the records a run over g keeps for the chain states ps, in order
RecordsOf(g, ps) ==
    [k \in 1 .. Len(ps) |-> MakeRecord(g, ps[k], k, MainStepsBetween, 0, 1)]

RECURSIVE StreamFile(_)
StreamFile(recs) ==
    IF recs = << >> THEN << >>
    ELSE WriteRecord(StreamFile(SubSeq(recs, 1, Len(recs) - 1)), recs[Len(recs)])

NdjsonFile(recs) == [k \in 1 .. Len(recs) |-> NdjsonLine(recs[k])]

PlanSeqs(g) == UNION { [1 .. n -> Plans(g)] : n \in 0 .. MaxFileRecords }

InitAnalysis ==
    /\ node_order \in PlanOrders
    /\ graph \in AnalysisGraphs
    /\ samples = 0 /\ steps_between = MainStepsBetween /\ burn_in = 0 /\ thin = 1
    /\ store_exists = TRUE
    /\ \E ps \in PlanSeqs(graph) :
          store \in { StreamFile(RecordsOf(graph, ps)), NdjsonFile(RecordsOf(graph, ps)) }
    /\ pc = "analysis"
    /\ step = 0
    /\ state = CHOOSE a \in Plans(graph) : TRUE
    /\ saved = 0
    /\ saved_states_seen = 0
    /\ outcome = << >>
    /\ plans = << >>
    /\ metrics = << >>
    /\ AuxIdle

NextAnalysis ==
    \/ Load
    \/ AnalyzePlan
    \/ WriteCsv
    \/ NoMetrics

SpecAnalysis == InitAnalysis /\ [][NextAnalysis]_vars

\* lines 204-225 of main, for the tallies of one plan
PlanMetrics(dem_by_dist, rep_by_dist) ==
    [seats |-> SeatTally(dem_by_dist, rep_by_dist),
     efficiency_gap |-> compute_efficiency_gap(dem_by_dist, rep_by_dist),
     mean_median |-> compute_mean_median(dem_by_dist, rep_by_dist),
     partisan_bias |-> compute_partisan_bias(dem_by_dist, rep_by_dist),
     declination_deg |-> compute_declination(dem_by_dist, rep_by_dist),
     competitive_45_55 |-> compute_competitiveness(dem_by_dist, rep_by_dist, 45, 55),
     competitive_48_52 |-> compute_competitiveness(dem_by_dist, rep_by_dist, 48, 52)]

ComputeMetrics ==
    /\ pc = "metrics"
    /\ report = << >>
    /\ report' = << PlanMetrics(tallies.dem, tallies.rep) >>
    /\ UNCHANGED << graph, genVars, store_exists, store, pc, plans, metrics,
                    G, drop_zero_pop, full_plan, contig_result, agg, tallies,
                    node_order >>

\* the per-district (Dem, Rep) tallies the metrics are computed for: empty
\* districts, exact ties, shares on and off the band edges 0.45, 0.48, 0.52, 0.55
TallyPairs ==
    { << 0, 0 >>, << 15, 15 >>, << 9, 11 >>, << 11, 9 >>, << 12, 13 >>,
      << 13, 12 >>, << 3, 1 >>, << 1, 3 >>, << 10, 5 >>, << 4, 6 >> }

TallyMaps ==
    UNION { [1 .. k -> TallyPairs] : k \in 0 .. MaxTallyDistricts }

\* the orders in which the districts 1 .. k were first met: rising or falling
KeyOrders(k) == { [i \in 1 .. k |-> i], [i \in 1 .. k |-> k + 1 - i] }

InitMetrics ==
    /\ node_order = [i \in 1 .. Cardinality(Nodes) |-> i]
    /\ graph = PathGraph
    /\ samples = 0 /\ steps_between = MainStepsBetween /\ burn_in = 0 /\ thin = 1
    /\ store_exists = FALSE
    /\ store = << >>
    /\ pc = "metrics"
    /\ step = 0
    /\ state = CHOOSE a \in Plans(graph) : TRUE
    /\ saved = 0
    /\ saved_states_seen = 0
    /\ outcome = << >>
    /\ plans = << >>
    /\ metrics = << >>
    /\ G = [nodes |-> {}, edges |-> {}, attr |-> << >>]
    /\ drop_zero_pop = FALSE
    /\ full_plan = << >>
    /\ contig_result = << >>
    /\ agg = << >>
    /\ \E t \in TallyMaps :
          \E ks \in KeyOrders(Len(t)) :
             tallies = [dem |-> [keys |-> ks, val |-> [d \in DOMAIN t |-> t[d][1]]],
                        rep |-> [keys |-> ks, val |-> [d \in DOMAIN t |-> t[d][2]]]]
    /\ report = << >>

NextMetrics ==
    \/ ComputeMetrics

SpecMetrics == InitMetrics /\ [][NextMetrics]_vars

\* preprocess_graph(graph, POP_KEY, DEM_KEY, REP_KEY, drop_zero_pop) in main
Preprocess ==
    /\ pc = "graph_loaded"
    /\ G' = preprocess_graph(G, drop_zero_pop)
    /\ pc' = "preprocessed"
    /\ UNCHANGED << graph, genVars, store_exists, store, plans, metrics,
                    drop_zero_pop, full_plan, contig_result, agg, tallies, report,
                    node_order >>

\* partition.parts of a plan over the nodes of g: the labels its nodes carry
PartsOf(g, plan) ==
    [d \in { plan[n] : n \in g.nodes } |-> { n \in g.nodes : plan[n] = d }]

\* the generator checks a chain state over the preprocessed graph
CheckContiguity ==
    /\ pc = "preprocessed"
    /\ G.nodes # {}
    /\ \E plan \in [Nodes -> Districts] :
          /\ full_plan' = [keys |-> node_order, val |-> plan]
          /\ contig_result' = << PartsContiguous(G.edges, PartsOf(G, plan)) >>
    /\ pc' = "checked"
    /\ UNCHANGED << graph, genVars, store_exists, store, plans, metrics,
                    G, drop_zero_pop, agg, tallies, report, node_order >>

\* the analysis aggregates a plan over the graph as loaded; the plan may name
\* nodes the graph does not have
Aggregate ==
    /\ pc = "graph_loaded"
    /\ \E plan \in [Nodes -> Districts], ks \in PlanOrders :
          /\ full_plan' = [keys |-> ks, val |-> plan]
          /\ agg' = << aggregate_votes_by_district(VoteAttrs(G), full_plan') >>
    /\ pc' = "aggregated"
    /\ UNCHANGED << graph, genVars, store_exists, store, plans, metrics,
                    G, drop_zero_pop, contig_result, tallies, report, node_order >>

\* the edges a loaded graph over Nodes can have: the 4-cycle and one diagonal
CandidateEdges == { {1, 2}, {2, 3}, {3, 4}, {1, 4}, {1, 3} }

\* the population a node is loaded with
RawPops == { Known(100), Known(0), Missing }

\* (Dem, Rep) votes in tenths: 0.1, 0.7 / 0.2, 0.1 / 0.3, 0.3 / 0.5, 1.5
TenthVotes == << << 1, 7 >>, << 2, 1 >>, << 3, 3 >>, << 5, 15 >> >>

\* the whole-number votes the nodes are loaded with: those of PathGraph,
\* complete or with gaps
RawVotes ==
    { [n \in Nodes |-> << Known(PathGraph[n][DEM_KEY]), Known(PathGraph[n][REP_KEY]) >>],
      [n \in Nodes |-> << IF n = 2 THEN Missing ELSE Known(PathGraph[n][DEM_KEY]),
                          IF n = 3 THEN Missing ELSE Known(PathGraph[n][REP_KEY]) >>] }

\* votes loaded as decimal numbers with a fraction part
DecimalVotes ==
    { [n \in Nodes |-> << Decimal(TenthVotes[n][1], 10), Decimal(TenthVotes[n][2], 10) >>] }

\* the graphs over the nodes N with the given edge sets and the given
\* population and vote layouts
GraphsOver(N, edgesets, pops, votes) ==
    { [nodes |-> N, edges |-> { e \in E : e \subseteq N },
       attr |-> [n \in N |-> Attr(pop[n], v[n][1], v[n][2])]] :
         E \in edgesets, pop \in pops, v \in votes }

\* the graphs a file can hold: all of Nodes, or Nodes without the last one;
\* the decimal votes come on the path with a population of 100 at every node
LoadedGraphs ==
    UNION { GraphsOver(N, SUBSET { e \in CandidateEdges : e \subseteq N },
                       [N -> RawPops], RawVotes)
              \cup GraphsOver(N, {Edges}, { [n \in N |-> Known(100)] }, DecimalVotes) :
            N \in { Nodes, Nodes \ {Cardinality(Nodes)} } }

InitGraph ==
    /\ node_order = [i \in 1 .. Cardinality(Nodes) |-> i]
    /\ graph = PathGraph
    /\ samples = 0 /\ steps_between = MainStepsBetween /\ burn_in = 0 /\ thin = 1
    /\ store_exists = FALSE
    /\ store = << >>
    /\ pc = "graph_loaded"
    /\ step = 0
    /\ state = CHOOSE a \in Plans(graph) : TRUE
    /\ saved = 0
    /\ saved_states_seen = 0
    /\ outcome = << >>
    /\ plans = << >>
    /\ metrics = << >>
    /\ G \in LoadedGraphs
    /\ drop_zero_pop \in BOOLEAN
    /\ full_plan = << >>
    /\ contig_result = << >>
    /\ agg = << >>
    /\ tallies = [dem |-> [keys |-> << >>, val |-> << >>],
                  rep |-> [keys |-> << >>, val |-> << >>]]
    /\ report = << >>

NextGraph ==
    \/ Preprocess
    \/ CheckContiguity
    \/ Aggregate

SpecGraph == InitGraph /\ [][NextGraph]_vars

-----------------------------------------------------------------------------
(* Reading the store back as the run wrote it: records separated by an     *)
(* empty line                                                              *)

RECURSIVE SplitRecords(_, _, _)
SplitRecords(lines, cur, acc) ==
    IF lines = << >> THEN (IF cur = << >> THEN acc ELSE Append(acc, cur))
    ELSE IF IsEmptyLine(Head(lines))
         THEN SplitRecords(Tail(lines), << >>,
                           IF cur = << >> THEN acc ELSE Append(acc, cur))
         ELSE SplitRecords(Tail(lines), Append(cur, Head(lines)), acc)

Written == SplitRecords(store, << >>, << >>)

\* the member key at depth ind of a written record
Member(rec, ind, key) ==
    rec[CHOOSE i \in 1 .. Len(rec) : rec[i].ind = ind /\ rec[i].key = key]

WrittenAssignment(rec) == [n \in Nodes |-> Member(rec, 4, ToString(n)).n]

IsPrefix(a, b) == Len(a) <= Len(b) /\ SubSeq(b, 1, Len(a)) = a

\* the cadence rule in terms of the chain state's number i alone
CandidateKept(i) == (i + 1) % (steps_between + 1) = 0
CandidateOrdinal(i) == (i + 1) \div (steps_between + 1)
CadenceKeeps(i) ==
    /\ CandidateKept(i)
    /\ CandidateOrdinal(i) > burn_in
    /\ (CandidateOrdinal(i) - burn_in - 1) % thin = 0

\* a step of the loop that consumes chain state number `step`
Consumes == pc = "loop" /\ step' = step + 1

-----------------------------------------------------------------------------
(* Claims *)

\* C1: with thin >= 1, chain state i (0-based) is recorded iff (i+1) is a
\* multiple of steps_between+1, its candidate ordinal j = (i+1)/(steps_between+1)
\* is > burn_in and (j - burn_in - 1) mod thin = 0, as long as fewer than
\* `samples` records exist; no state outside this rule is ever recorded; with
\* steps_between = 0 every state is candidate-kept.
C1_RecordingCadence ==
    [][ (thin >= 1 /\ Consumes) =>
            /\ (saved < samples => ((store' # store) <=> CadenceKeeps(step)))
            /\ ((store' # store) => CadenceKeeps(step))
            /\ (steps_between = 0 => saved_states_seen' = saved_states_seen + 1)
            /\ saved_states_seen' = CandidateOrdinal(step) ]_vars

C1_Witness ==
    /\ steps_between = 1 /\ burn_in = 1 /\ thin = 2
    /\ saved = 2 /\ Len(Written) = 2
    /\ step = 8

\* C2: the number of records written never exceeds `samples`, for every
\* samples >= 0 (samples = 0 included).
C2_NeverExceedsSamples ==
    pc # "start" => (saved <= samples /\ Len(Written) <= samples)

\* C3: when the chain's step budget is exhausted before `samples` records
\* were written, the run ends in an outcome that differs from the one of a
\* full run and reports both the number produced and the number requested.
C3_ShortfallIsExplicit ==
    (pc = "done" /\ saved < samples) =>
        /\ outcome # << >>
        /\ outcome[1].msg # "Stream-saved"
        /\ {"saved", "requested"} \subseteq DOMAIN outcome[1]

\* C4: a run with thin = 0 fails with an error before the first chain step
\* and before the store is created or truncated; it never completes normally
\* and never leaves a new or emptied store behind.
C4_ThinZeroFailsFast ==
    thin = 0 =>
        /\ pc \in {"start", "raised"}
        /\ step = 0
        /\ store = (IF store_exists THEN StaleStore ELSE << >>)
        /\ (store_exists => store # << >>)

\* C5: during a run the store is append-only: every step leaves the lines
\* already written unchanged and adds at most one record, and after the n-th
\* kept record the store holds exactly records 1..n in order.
C5_AppendOnly ==
    /\ [](pc # "start" =>
            /\ Len(Written) = saved
            /\ \A k \in 1 .. Len(Written) : Member(Written[k], 2, "index").n = k)
    /\ [][ pc # "start" =>
            /\ IsPrefix(store, store')
            /\ Len(SplitRecords(store', << >>, << >>)) <= Len(Written) + 1
            /\ (saved' # saved => store' # store) ]_vars

C5_Witness ==
    /\ pc = "loop" /\ samples = 2 /\ saved = 1
    /\ Len(Written) = 1
    /\ step > (burn_in + 1) * (steps_between + 1)

\* C6: the contiguity check is advisory: the flag of every record is the
\* result of the check on the recorded plan, and a cadence-kept state whose
\* plan is not contiguous is still written, with flag false, and counted.
C6_ContiguityAdvisory ==
    /\ [](pc # "start" =>
            \A k \in 1 .. Len(Written) :
                Member(Written[k], 2, "contiguous").val =
                    (IF is_partition_contiguous(WrittenAssignment(Written[k]))
                     THEN "true" ELSE "false"))
    /\ [][ (thin >= 1 /\ Consumes /\ CadenceKeeps(step)
            /\ ~ is_partition_contiguous(state')) =>
                /\ saved' = saved + 1
                /\ Len(SplitRecords(store', << >>, << >>)) = saved'
                /\ LET rec == SplitRecords(store', << >>, << >>)[saved']
                   IN  /\ Member(rec, 2, "contiguous").val = "false"
                       /\ WrittenAssignment(rec) = state' ]_vars

C6_Witness ==
    /\ saved = 2 /\ Len(Written) = 2
    /\ Member(Written[1], 2, "contiguous").val = "false"
    /\ Member(Written[2], 2, "contiguous").val = "true"

\* C7: for every plan, the efficiency gap stored in the record at generation
\* time equals the efficiency gap recomputed at analysis time.
C7_OneEfficiencyGap ==
    \A k \in 1 .. Len(metrics) :
        /\ metrics[k].efficiency_gap_generated # << >>
        /\ ~ IsNaN(metrics[k].efficiency_gap_recomputed)
        /\ FracEq(metrics[k].efficiency_gap_generated[1],
                  metrics[k].efficiency_gap_recomputed)

\* C8: loading the store written by a run that kept n records yields exactly
\* n plan records, in order, each with the assignment that was written.
C8_StoreRoundTrip ==
    pc \in {"rows", "load_raised"} =>
        /\ pc = "rows"
        /\ Len(plans) = saved
        /\ \A k \in 1 .. Len(plans) :
              /\ plans[k].index = k
              /\ IntKeys(plans[k].assignment).val = WrittenAssignment(Written[k])

\* C9: the analysis row of a generator record carries the record's ordinal
\* index, its seat count (gop_seats) and its efficiency gap.
C9_RowCarriesRecordedValues ==
    \A k \in 1 .. Len(metrics) :
        /\ metrics[k].plan_index = << plans[k].index >>
        /\ metrics[k].rep_seats_generated = << plans[k].gop_seats >>
        /\ metrics[k].efficiency_gap_generated = << plans[k].efficiency_gap >>

\* C10: in the analysis seat tally a district is a win for the party with
\* strictly more votes, a tie on equal totals, and districts with zero
\* two-party vote count as none of them: wins + losses + ties is the number
\* of districts with a positive total, and seat share = wins / that number.
C10_SeatTallyExcludesEmpty ==
    \A k \in 1 .. Len(metrics) :
        LET votes == VoteCounts(graph, IntKeys(plans[k].assignment))
            pos   == { d \in DOMAIN votes.dem.val :
                         votes.dem.val[d] + votes.rep.val[d] > 0 }
            wins  == Cardinality({ d \in pos : votes.dem.val[d] > votes.rep.val[d] })
            loss  == Cardinality({ d \in pos : votes.rep.val[d] > votes.dem.val[d] })
            ties  == Cardinality({ d \in pos : votes.dem.val[d] = votes.rep.val[d] })
            row   == metrics[k]
        IN  /\ row.dem_seats_recomputed = wins
            /\ row.gop_seats_recomputed = loss
            /\ row.ties = ties
            /\ row.dem_seats_recomputed + row.gop_seats_recomputed + row.ties
                 = Cardinality(pos)
            /\ (pos # {} => FracEq(row.seat_share_dem, Frac(wins, Cardinality(pos))))

\* C17: with samples >= 1 and thin >= 1 the default budget
\* (samples + burn_in) * (steps_between + 1) * thin + 100 is never exhausted
\* first: while the loop runs a further chain state is always available, and
\* the run ends having written exactly `samples` records, with ordinal
\* indices 1 .. samples in write order.
C17_DefaultBudgetSuffices ==
    (samples >= 1 /\ thin >= 1) =>
        /\ pc # "raised"
        /\ (pc = "loop" =>
              /\ saved < samples
              /\ step < TotalSteps(samples, burn_in, steps_between, thin))
        /\ (pc \notin {"start", "loop"} =>
              /\ saved = samples
              /\ Len(Written) = samples
              /\ \A k \in 1 .. samples : Member(Written[k], 2, "index").n = k)

C17_Witness ==
    /\ pc = "done"
    /\ samples = 2 /\ burn_in = 1 /\ thin = 2 /\ steps_between = MainStepsBetween
    /\ saved = 2
    /\ step = 4 * (MainStepsBetween + 1)

-----------------------------------------------------------------------------
(* Metrics of one plan's tallies *)

Qualifying ==
    { d \in DOMAIN tallies.dem.val : tallies.dem.val[d] + tallies.rep.val[d] > 0 }
AllQualifyingTied == \A d \in Qualifying : tallies.dem.val[d] = tallies.rep.val[d]
IsZero(f) == f.d > 0 /\ f.n = 0
TiedExample ==
    [dem |-> [keys |-> << 1, 2 >>, val |-> << 15, 15 >>],
     rep |-> [keys |-> << 1, 2 >>, val |-> << 15, 15 >>]]

\* C12 as stated: whenever every qualifying district is an exact tie, whatever
\* the number of districts and of zero-vote districts, the efficiency gap is 0
C12_TiedGapIsZeroAlways ==
    (report # << >> /\ AllQualifyingTied) => IsZero(report[1].efficiency_gap)

\* C12: when at least one district qualifies and every qualifying district is
\* an exact tie, compute_efficiency_gap returns 0, whatever the number of
\* districts and of zero-vote districts mixed in; with no qualifying district
\* it returns NaN; the tallies (15,15), (15,15) give 0 wins, 0 losses, 2 ties
C12_TiedGapIsZero ==
    (report # << >> /\ AllQualifyingTied) =>
        /\ (Qualifying # {} => IsZero(report[1].efficiency_gap))
        /\ (Qualifying = {} => IsNaN(report[1].efficiency_gap))
        /\ (tallies = TiedExample =>
              /\ report[1].seats.dem_seats = 0
              /\ report[1].seats.gop_seats = 0
              /\ report[1].seats.ties = 2)

C12_Witness ==
    /\ report # << >>
    /\ tallies.dem.keys = << 3, 2, 1 >>
    /\ tallies.dem.val = << 15, 0, 15 >>
    /\ tallies.rep.val = << 15, 0, 15 >>
    /\ IsZero(report[1].efficiency_gap)

\* C13: no metric raises, and each returns NaN exactly on its degenerate
\* input: the efficiency gap iff the statewide two-party total is zero, the
\* mean-median difference and the partisan bias iff no district qualifies, the
\* declination iff no district qualifies or the number k of shares <= 0.5 is
\* 0 or equals the number n of qualifying districts
C13_NaNExactlyWhenDegenerate ==
    report # << >> =>
        LET r == report[1]
            n == Cardinality(Qualifying)
            k == Cardinality({ d \in Qualifying :
                     2 * tallies.dem.val[d] <= tallies.dem.val[d] + tallies.rep.val[d] })
            statewide == SumVotes(tallies.dem, DOMAIN tallies.dem.val)
                         + SumVotes(tallies.rep, DOMAIN tallies.rep.val)
        IN  /\ ~ IsRaised(r.efficiency_gap)
            /\ ~ IsRaised(r.mean_median)
            /\ ~ IsRaised(r.partisan_bias)
            /\ ~ r.declination_deg.raised
            /\ IsNaN(r.efficiency_gap) <=> (statewide = 0)
            /\ IsNaN(r.mean_median) <=> (n = 0)
            /\ IsNaN(r.partisan_bias) <=> (n = 0)
            /\ r.declination_deg.nan <=> (n = 0 \/ k = 0 \/ k = n)

C13_Witness ==
    /\ report # << >>
    /\ tallies.dem.val = << 9, 0, 4 >>
    /\ tallies.rep.val = << 11, 0, 6 >>
    /\ report[1].declination_deg.nan
    /\ ~ IsNaN(report[1].mean_median)
    /\ ~ IsNaN(report[1].partisan_bias)
    /\ ~ IsNaN(report[1].efficiency_gap)

\* C15: the count for the band [0.45, 0.55] is never below the count for
\* [0.48, 0.52]; both bands include their endpoints and both leave out the
\* districts with a zero two-party total
C15_BandsNested ==
    report # << >> =>
        LET share(d) == Frac(tallies.dem.val[d], tallies.dem.val[d] + tallies.rep.val[d])
            within(lo, hi) ==
                Cardinality({ d \in Qualifying :
                    FracLe(lo, share(d)) /\ FracLe(share(d), hi) })
        IN  /\ report[1].competitive_45_55 >= report[1].competitive_48_52
            /\ report[1].competitive_45_55 = within(Frac(45, 100), Frac(55, 100))
            /\ report[1].competitive_48_52 = within(Frac(48, 100), Frac(52, 100))

C15_Witness ==
    /\ report # << >>
    /\ tallies.dem.val = << 9, 12, 0 >>
    /\ tallies.rep.val = << 11, 13, 0 >>
    /\ report[1].competitive_45_55 = 2
    /\ report[1].competitive_48_52 = 1

-----------------------------------------------------------------------------
(* Graph preprocessing, contiguity and aggregation *)

\* C16: after preprocess_graph returns, with drop_zero_pop set or not, no
\* node of the graph has degree zero
C16_NoIsolatedNode ==
    pc = "preprocessed" => \A n \in G.nodes : Degree(G, n) > 0

\* S cannot be split into two non-empty sides with no edge of E between them
OneComponent(E, S) ==
    \A T \in SUBSET S :
        (T # {} /\ T # S) => \E a \in T, b \in S \ T : {a, b} \in E

\* C14: is_partition_contiguous returns true iff every district has a
\* non-empty member set whose induced subgraph is one connected component;
\* members joined only through nodes of other districts do not count
C14_ContiguousIffEachDistrictConnected ==
    contig_result # << >> =>
        (contig_result[1] <=>
            \A d \in { full_plan.val[n] : n \in G.nodes } :
                LET S == { n \in G.nodes : full_plan.val[n] = d }
                IN  S # {} /\ OneComponent(G.edges, S))

\* district 1 = {1, 3}, joined only through node 2 of district 2
C14_Witness ==
    /\ contig_result = << FALSE >>
    /\ G.nodes = Nodes
    /\ G.edges = { {1, 2}, {2, 3}, {3, 4} }
    /\ full_plan.val = << 1, 2, 1, 2 >>

\* the sum of f over S as a real number
RECURSIVE ExactSum(_, _)
ExactSum(f, S) ==
    IF S = {} THEN Zero
    ELSE LET x == CHOOSE y \in S : TRUE
         IN  ExactAdd(f[x], ExactSum(f, S \ {x}))

\* the nodes of the graph that the plan assigns
Assigned == DOMAIN full_plan.val \cap G.nodes

\* the tallies are those of the assigned nodes' districts, each party's
\* tallies add up to the sum of its attribute over the assigned nodes (as
\* real numbers), and each two-party total is dem + rep of the district (in
\* float addition, which equality as real numbers implies)
TalliesExact ==
    LET a == agg[1]
        votes == VoteAttrs(G)
    IN  /\ DOMAIN a.dem.val = { full_plan.val[n] : n \in Assigned }
        /\ DOMAIN a.rep.val = DOMAIN a.dem.val
        /\ DOMAIN a.two.val = DOMAIN a.dem.val
        /\ ExactSum(a.dem.val, DOMAIN a.dem.val)
              = ExactSum([n \in Assigned |-> votes[n][DEM_KEY]], Assigned)
        /\ ExactSum(a.rep.val, DOMAIN a.rep.val)
              = ExactSum([n \in Assigned |-> votes[n][REP_KEY]], Assigned)
        /\ \A d \in DOMAIN a.two.val :
              a.two.val[d] = FloatAdd(a.dem.val[d], a.rep.val[d])

\* every vote attribute of an assigned node is a whole number or is missing
WholeVotes ==
    \A n \in Assigned :
        /\ G.attr[n][DEM_KEY].kind \in {"num", "none"}
        /\ G.attr[n][REP_KEY].kind \in {"num", "none"}

\* C11 as stated: for every graph and every plan the per-district tallies of
\* aggregate_votes_by_district add up to the sum of each party's attribute
\* over the assigned nodes of the graph, and each district's two-party total
\* is its partyA tally plus its partyB tally
C11_AggregationExact ==
    agg # << >> => TalliesExact

\* C11: the same for every graph whose vote attributes are whole numbers (or
\* missing, read as 0): there the float additions do not round
C11_AggregationExactOnCounts ==
    (agg # << >> /\ WholeVotes) => TalliesExact

\* both districts hold two nodes of the whole graph, with tallies (15, 15)
C11_Witness ==
    /\ agg # << >>
    /\ WholeVotes
    /\ G.nodes = Nodes
    /\ full_plan = [keys |-> << 4, 3, 2, 1 >>, val |-> << 1, 1, 2, 2 >>]
    /\ agg[1].dem = [keys |-> << 2, 1 >>, val |-> << FloatOf(15), FloatOf(15) >>]
    /\ agg[1].rep = [keys |-> << 2, 1 >>, val |-> << FloatOf(15), FloatOf(15) >>]
    /\ agg[1].two = [keys |-> << 2, 1 >>, val |-> << FloatOf(30), FloatOf(30) >>]

====
